---- MODULE Spec2Model ----
(***************************************************************************)
(* Seoul air-quality dashboard (src/app.py): the cached CSV loader, the    *)
(* empty-data gate, the year/district filter, the per-tab aggregations,    *)
(* the grade classification and the session's favourites list.            *)
(*                                                                         *)
(* Column names of the data frame are written in English:                  *)
(*   ts = ilsi (date-time), district = gubun, year = yeondo,               *)
(*   month = wol, day = il, hour = sigan;                                  *)
(* the grades are Good = joeum, Moderate = botong, Bad = nappeum,          *)
(* VeryBad = maeu-nappeum, NoData = deiteo-eopseum.                        *)
(* A float is an exact fraction [num, den]; NaN is 0/0.  A timestamp is a  *)
(* record of its calendar fields; NaT is the all-zero record.              *)
(***************************************************************************)
EXTENDS Integers, Sequences, FiniteSets, TLC

VARIABLES
    files,              \* the CSV files on disk: source -> [readable, rows]
    cache,              \* st.cache_data store of load_data: <<>> or <<table>>
    readCount,          \* source -> number of pd.read_csv calls on it
    attempted,          \* sources tried by the last execution of load_data's body
    errors,             \* sources reported with st.error by that execution
    filesAtLoad,        \* the files as they were when the body executed
    firstTable,         \* <<>> or <<the table the first load_data call returned>>
    lastLoad,           \* "none" | "miss" | "hit": how the last call was served
    data,               \* the script's `data` of the current run
    emptyError,         \* the empty-data st.error of line 98 was shown
    pc,                 \* position of the script run
    selected_year, selected_districts, pollutant,
    filtered_data,
    latest_data, metrics, district_avg,
    monthly_trend, hourly_pattern,
    markers,
    date_range, summary_stats,
    raised,             \* "none" or the exception that ended the run
    executed,           \* the filter/aggregation steps executed in this run
    favorite_districts, \* st.session_state.favorite_districts
    lastFav,            \* the last favourites button handled, with the list before it
    gradeIn, gradeOut   \* inputs and results of get_air_quality_grade

vars == <<files, cache, readCount, attempted, errors, filesAtLoad, firstTable,
          lastLoad, data, emptyError, pc, selected_year, selected_districts,
          pollutant, filtered_data, latest_data, metrics, district_avg,
          monthly_trend, hourly_pattern, markers, date_range, summary_stats,
          raised, executed, favorite_districts, lastFav, gradeIn, gradeOut>>

loaderVars == <<files, cache, readCount, attempted, errors, filesAtLoad,
                firstTable, lastLoad, data, emptyError>>
sidebarVars == <<selected_year, selected_districts, pollutant>>
tabVars == <<filtered_data, latest_data, metrics, district_avg, monthly_trend,
             hourly_pattern, markers, date_range, summary_stats>>
favVars == <<favorite_districts, lastFav>>
gradeVars == <<gradeIn, gradeOut>>

(***************************************************************************)
(* Values                                                                  *)
(***************************************************************************)
NaN == [num |-> 0, den |-> 0]
isna(v) == v.den = 0
Num(n) == [num |-> n, den |-> 1]

\* a <= b for non-missing fractions
LE(a, b) == a.num * b.den <= b.num * a.den
EQ(a, b) == ~isna(a) /\ ~isna(b) /\ a.num * b.den = b.num * a.den

NaT == [year |-> 0, month |-> 0, day |-> 0, hour |-> 0]
isnat(t) == t.month = 0

\* pd.to_datetime(..., errors='coerce') on one cell: the text is the tuple
\* <<year, month, day, hour>> of the fields it spells
to_datetime(raw) ==
    IF /\ raw[2] \in 1..12
       /\ raw[3] \in 1..31
       /\ raw[4] \in 0..23
    THEN [year |-> raw[1], month |-> raw[2], day |-> raw[3], hour |-> raw[4]]
    ELSE NaT

\* the order of timestamps
TsKey(t) == ((t.year * 100 + t.month) * 100 + t.day) * 100 + t.hour
\* .dt.date / .date()
DateOf(t) == (t.year * 100 + t.month) * 100 + t.day

(***************************************************************************)
(* Data frames: [columns, rows]; pd.DataFrame() has neither.               *)
(***************************************************************************)
EmptyFrame == [columns |-> {}, rows |-> <<>>]
RawColumns == {"ts", "district", "PM10", "PM25"}
DerivedColumns == {"year", "month", "day", "hour"}

\* DataFrame.empty: any axis of length 0
DataFrameEmptyNoColumns(df) == df.columns = {}
DataFrameEmpty(df) == df.columns = {} \/ Len(df.rows) = 0

RECURSIVE SelectRows(_, _)
\* rows[mask]: the rows at which the boolean mask is true, in order
SelectRows(rows, mask) ==
    IF rows = <<>> THEN <<>>
    ELSE IF mask[1] THEN <<Head(rows)>> \o SelectRows(Tail(rows), Tail(mask))
         ELSE SelectRows(Tail(rows), Tail(mask))

(***************************************************************************)
(* load_data (lines 30-60)                                                 *)
(***************************************************************************)
NumSources == 5
Sources == 1..NumSources
Unreadable == [readable |-> FALSE, rows |-> <<>>]
Csv(rows) == [readable |-> TRUE, rows |-> rows]

RECURSIVE ReadSources(_, _, _)
\* the for loop of lines 42-47 from source s on; acc = [dfs, errors, attempted]
ReadSources(fs, s, acc) ==
    IF s > NumSources THEN acc
    ELSE IF fs[s].readable
         THEN ReadSources(fs, s + 1,
                  [acc EXCEPT !.dfs = Append(@, fs[s].rows),
                              !.attempted = Append(@, s)])
         ELSE ReadSources(fs, s + 1,
                  [acc EXCEPT !.errors = Append(@, s),
                              !.attempted = Append(@, s)])

RECURSIVE ReadSourcesAbort(_, _, _)
\* the loop without the try/except: the first unreadable source ends it
ReadSourcesAbort(fs, s, acc) ==
    IF s > NumSources THEN acc
    ELSE IF fs[s].readable
         THEN ReadSourcesAbort(fs, s + 1,
                  [acc EXCEPT !.dfs = Append(@, fs[s].rows),
                              !.attempted = Append(@, s)])
         ELSE [acc EXCEPT !.errors = Append(@, s),
                          !.attempted = Append(@, s)]

ReadLoopAbort(fs) ==
    ReadSourcesAbort(fs, 1, [dfs |-> <<>>, errors |-> <<>>, attempted |-> <<>>])
ReadLoop(fs) ==
    ReadSources(fs, 1, [dfs |-> <<>>, errors |-> <<>>, attempted |-> <<>>])

RECURSIVE concat(_)
\* pd.concat(dfs, ignore_index=True): the rows of the frames, in order
concat(dfs) == IF dfs = <<>> THEN <<>> ELSE Head(dfs) \o concat(Tail(dfs))

\* line 52: the ts column parsed, unparseable cells becoming NaT
ParseColumn(rows) ==
    [i \in DOMAIN rows |-> [rows[i] EXCEPT !.ts = to_datetime(@)]]

\* line 53 left out: every row kept
dropnaKeepAll(rows) == rows
\* line 53: data.dropna(subset=[ts])
dropna(rows) ==
    SelectRows(rows, [i \in DOMAIN rows |-> ~isnat(rows[i].ts)])

\* lines 54-57: the calendar columns of one row
DeriveRow(r) ==
    [ts |-> r.ts, district |-> r.district, PM10 |-> r.PM10, PM25 |-> r.PM25,
     year |-> r.ts.year, month |-> r.ts.month, day |-> r.ts.day,
     hour |-> r.ts.hour]

\* lines 49-60 on the frames read
Unify(dfs) ==
    IF dfs # <<>>
    THEN LET kept == dropna(ParseColumn(concat(dfs)))
         IN  [columns |-> RawColumns \cup DerivedColumns,
              rows |-> [i \in DOMAIN kept |-> DeriveRow(kept[i])]]
    ELSE EmptyFrame

\* a cache that never holds
CacheHitNever(c) == FALSE
\* @st.cache_data (line 30): the call is served from the store
CacheHit(c) == c # <<>>

\* line 95: data = load_data()
LoadData ==
    /\ pc = "start"
    /\ IF CacheHit(cache)
       THEN /\ data' = cache[1]
            /\ lastLoad' = "hit"
            /\ UNCHANGED <<cache, readCount, attempted, errors, filesAtLoad,
                           firstTable>>
       ELSE LET r == ReadLoop(files)
                t == Unify(r.dfs)
            IN  /\ readCount' =
                       [s \in Sources |->
                           readCount[s] +
                           (IF \E i \in DOMAIN r.attempted : r.attempted[i] = s
                            THEN 1 ELSE 0)]
                /\ attempted' = r.attempted
                /\ errors' = r.errors
                /\ filesAtLoad' = files
                /\ cache' = <<t>>
                /\ data' = t
                /\ firstTable' = IF firstTable = <<>> THEN <<t>> ELSE firstTable
                /\ lastLoad' = "miss"
    /\ pc' = "gate"
    /\ UNCHANGED <<files, emptyError, sidebarVars, tabVars, raised, executed,
                   favVars, gradeVars>>

\* lines 97-99: the empty-data gate
Gate ==
    /\ pc = "gate"
    /\ IF DataFrameEmpty(data)
       THEN /\ emptyError' = TRUE
            /\ pc' = "stopped"
       ELSE /\ pc' = "sidebar"
            /\ UNCHANGED emptyError
    /\ UNCHANGED <<files, cache, readCount, attempted, errors, filesAtLoad,
                   firstTable, lastLoad, data, sidebarVars, tabVars, raised,
                   executed, favVars, gradeVars>>

(***************************************************************************)
(* Sidebar widgets (lines 102-114)                                         *)
(***************************************************************************)
Pollutants == {"PM10", "PM25"}
Years(df) == {df.rows[i].year : i \in DOMAIN df.rows}
DistrictsOf(rows) == {rows[i].district : i \in DOMAIN rows}

\* df[column] for the pollutant columns
Col(rows, p) ==
    [i \in DOMAIN rows |-> IF p = "PM10" THEN rows[i].PM10 ELSE rows[i].PM25]

\* lines 105-114 in a run where no favourites button is pressed: the widgets
\* return a year of the data, any subset of its districts and a pollutant
Sidebar ==
    /\ pc = "sidebar"
    /\ \E y \in Years(data), ds \in SUBSET DistrictsOf(data.rows), p \in Pollutants :
          /\ selected_year' = y
          /\ selected_districts' = ds
          /\ pollutant' = p
    /\ pc' = "filter"
    /\ UNCHANGED <<loaderVars, tabVars, raised, executed, favVars, gradeVars>>

(***************************************************************************)
(* Filter (lines 137-141)                                                  *)
(***************************************************************************)
\* the mask with | in place of &
FilterMaskOr(rows, year, ds) ==
    [i \in DOMAIN rows |-> (rows[i].year = year) \/ (rows[i].district \in ds)]
\* (data[year] == selected_year) & (data[district].isin(selected_districts))
FilterMask(rows, year, ds) ==
    [i \in DOMAIN rows |-> (rows[i].year = year) /\ (rows[i].district \in ds)]

\* the selection written back into `data` instead of copied out of it
FilterStepInPlace(df, year, ds) ==
    LET sel == [columns |-> df.columns,
                rows |-> SelectRows(df.rows, FilterMask(df.rows, year, ds))]
    IN  [data |-> sel, filtered_data |-> sel]
\* data[mask].copy(): what lines 138-141 leave in `data` and `filtered_data`
FilterStep(df, year, ds) ==
    [data |-> df,
     filtered_data |->
         [columns |-> df.columns,
          rows |-> SelectRows(df.rows, FilterMask(df.rows, year, ds))]]

Filter ==
    /\ pc = "filter"
    /\ LET r == FilterStep(data, selected_year, selected_districts)
       IN  /\ data' = r.data
           /\ filtered_data' = r.filtered_data
    /\ executed' = executed \cup {"filter"}
    /\ pc' = "tab1"
    /\ UNCHANGED <<files, cache, readCount, attempted, errors, filesAtLoad,
                   firstTable, lastLoad, emptyError, sidebarVars, latest_data,
                   metrics, district_avg, monthly_trend, hourly_pattern,
                   markers, date_range, summary_stats, raised, favVars,
                   gradeVars>>

(***************************************************************************)
(* Series reductions, all with pandas' skipna                              *)
(***************************************************************************)
Add(a, b) == [num |-> a.num * b.den + b.num * a.den, den |-> a.den * b.den]

RECURSIVE Sum(_)
\* the sum of the non-missing values
Sum(vals) ==
    IF vals = <<>> THEN Num(0)
    ELSE IF isna(Head(vals)) THEN Sum(Tail(vals))
         ELSE Add(Head(vals), Sum(Tail(vals)))

RECURSIVE Count(_)
\* the number of non-missing values
Count(vals) ==
    IF vals = <<>> THEN 0
    ELSE (IF isna(Head(vals)) THEN 0 ELSE 1) + Count(Tail(vals))

\* a mean that counts a missing value as a zero
MeanZeroFill(vals) ==
    IF Len(vals) = 0 THEN NaN
    ELSE [num |-> Sum(vals).num, den |-> Sum(vals).den * Len(vals)]
\* Series.mean(): NaN when no value is present
Mean(vals) ==
    IF Count(vals) = 0 THEN NaN
    ELSE [num |-> Sum(vals).num, den |-> Sum(vals).den * Count(vals)]

RECURSIVE Max(_)
\* Series.max()
Max(vals) ==
    IF vals = <<>> THEN NaN
    ELSE LET m == Max(Tail(vals))
         IN  IF isna(Head(vals)) THEN m
             ELSE IF isna(m) \/ LE(m, Head(vals)) THEN Head(vals) ELSE m

RECURSIVE Min(_)
\* Series.min()
Min(vals) ==
    IF vals = <<>> THEN NaN
    ELSE LET m == Min(Tail(vals))
         IN  IF isna(Head(vals)) THEN m
             ELSE IF isna(m) \/ LE(Head(vals), m) THEN Head(vals) ELSE m

\* Series.std() as its square, the sample variance
\*   (n * sum(x^2) - sum(x)^2) / (n * (n - 1));
\* NaN for fewer than two values
Std(vals) ==
    LET present == SelectRows(vals, [i \in DOMAIN vals |-> ~isna(vals[i])])
        n == Len(present)
        sq == [i \in DOMAIN present |->
                  [num |-> present[i].num * present[i].num,
                   den |-> present[i].den * present[i].den]]
        s1 == Sum(present)
        s2 == Sum(sq)
    IN  IF n < 2 THEN NaN
        ELSE [num |-> n * s2.num * s1.den * s1.den - s1.num * s1.num * s2.den,
              den |-> n * (n - 1) * s2.den * s1.den * s1.den]

\* round(1): to one decimal, ties to even
Round1(v) ==
    IF isna(v) THEN NaN
    ELSE LET q == (v.num * 10) \div v.den
             r == (v.num * 10) % v.den
         IN  [num |-> IF 2 * r > v.den \/ (2 * r = v.den /\ q % 2 = 1)
                      THEN q + 1 ELSE q,
              den |-> 10]

(***************************************************************************)
(* get_air_quality_grade (lines 62-77)                                     *)
(***************************************************************************)
PM10_GOOD == 30
PM10_MODERATE == 80
PM10_BAD == 150
PM25_GOOD == 15
PM25_MODERATE == 35
PM25_BAD == 75

\* the same with < for <= at every threshold
get_air_quality_grade_strict(value, p) ==
    IF isna(value) THEN "NoData"
    ELSE IF p = "PM10"
         THEN IF ~LE(Num(PM10_GOOD), value) THEN "Good"
              ELSE IF ~LE(Num(PM10_MODERATE), value) THEN "Moderate"
              ELSE IF ~LE(Num(PM10_BAD), value) THEN "Bad"
              ELSE "VeryBad"
         ELSE IF ~LE(Num(PM25_GOOD), value) THEN "Good"
              ELSE IF ~LE(Num(PM25_MODERATE), value) THEN "Moderate"
              ELSE IF ~LE(Num(PM25_BAD), value) THEN "Bad"
              ELSE "VeryBad"
get_air_quality_grade(value, p) ==
    IF isna(value) THEN "NoData"
    ELSE IF p = "PM10"
         THEN IF LE(value, Num(PM10_GOOD)) THEN "Good"
              ELSE IF LE(value, Num(PM10_MODERATE)) THEN "Moderate"
              ELSE IF LE(value, Num(PM10_BAD)) THEN "Bad"
              ELSE "VeryBad"
         ELSE IF LE(value, Num(PM25_GOOD)) THEN "Good"
              ELSE IF LE(value, Num(PM25_MODERATE)) THEN "Moderate"
              ELSE IF LE(value, Num(PM25_BAD)) THEN "Bad"
              ELSE "VeryBad"

(***************************************************************************)
(* Tab 1 (lines 146-181)                                                   *)
(***************************************************************************)
\* the districts in sorted order, as groupby and sorted() order them
DistrictNames ==
    <<"Gangnam", "Jung", "Jongno", "Mapo", "Seocho", "Songpa", "Yongsan">>
DistrictRank(d) == CHOOSE i \in DOMAIN DistrictNames : DistrictNames[i] = d

RECURSIVE MaxTs(_)
\* filtered_data[ts].max(): NaT for no rows
MaxTs(rows) ==
    IF rows = <<>> THEN NaT
    ELSE LET m == MaxTs(Tail(rows))
         IN  IF isnat(m) \/ TsKey(Head(rows).ts) >= TsKey(m)
             THEN Head(rows).ts ELSE m

\* line 151: the rows at the latest timestamp; none compares equal to NaT
LatestSnapshot(rows) ==
    LET m == MaxTs(rows)
    IN  SelectRows(rows, [i \in DOMAIN rows |-> ~isnat(m) /\ rows[i].ts = m])

\* latest_data[latest_data[pollutant] == x][district]: NaN equals nothing
DistrictsAt(rows, p, x) ==
    LET vals == Col(rows, p)
        hit == SelectRows(rows, [i \in DOMAIN rows |-> EQ(vals[i], x)])
    IN  [i \in DOMAIN hit |-> hit[i].district]

\* groupby(district)[pollutant].mean(): one entry per district of the rows
GroupMeanByDistrict(rows, p) ==
    [d \in DistrictsOf(rows) |->
        Mean(Col(SelectRows(rows, [i \in DOMAIN rows |-> rows[i].district = d]), p))]

\* d comes before e in sort_values(ascending=False): larger means first, NaN
\* last, equal means in index order
Before(series, d, e) ==
    \/ ~isna(series[d]) /\ isna(series[e])
    \/ /\ ~isna(series[d]) /\ ~isna(series[e])
       /\ ~LE(series[d], series[e])
    \/ /\ (isna(series[d]) /\ isna(series[e])) \/ EQ(series[d], series[e])
       /\ DistrictRank(d) < DistrictRank(e)

RECURSIVE SortDescending(_, _)
SortDescending(series, left) ==
    IF left = {} THEN <<>>
    ELSE LET d == CHOOSE d \in left :
                      \A e \in left \ {d} : Before(series, d, e)
         IN  <<[district |-> d, mean |-> series[d]]>>
                 \o SortDescending(series, left \ {d})

\* line 171
DistrictAvg(rows, p) ==
    LET series == GroupMeanByDistrict(rows, p)
    IN  SortDescending(series, DOMAIN series)

\* lines 150-171: [raised, latest_data, metrics, district_avg]
Tab1Result(rows, p) ==
    LET latest == LatestSnapshot(rows)
        vals == Col(latest, p)
        avg_value == Mean(vals)
        max_value == Max(vals)
        min_value == Min(vals)
        atMax == DistrictsAt(latest, p, max_value)
        atMin == DistrictsAt(latest, p, min_value)
    IN  IF latest = <<>>
        THEN [raised |-> "none", latest_data |-> latest, metrics |-> <<>>,
              district_avg |-> DistrictAvg(rows, p)]
        ELSE IF atMax = <<>> \/ atMin = <<>>
        THEN \* .iloc[0] of an empty selection (lines 163, 165)
             [raised |-> "IndexError", latest_data |-> latest,
              metrics |-> <<>>, district_avg |-> <<>>]
        ELSE [raised |-> "none", latest_data |-> latest,
              metrics |-> <<[avg |-> avg_value,
                             grade |-> get_air_quality_grade(avg_value, p),
                             max |-> max_value, max_district |-> atMax[1],
                             min |-> min_value, min_district |-> atMin[1],
                             time |-> latest[1].ts]>>,
              district_avg |-> DistrictAvg(rows, p)]

Tab1 ==
    /\ pc = "tab1"
    /\ LET r == Tab1Result(filtered_data.rows, pollutant)
       IN  /\ latest_data' = r.latest_data
           /\ metrics' = r.metrics
           /\ district_avg' = r.district_avg
           /\ raised' = r.raised
           /\ pc' = IF r.raised = "none" THEN "tab2" ELSE "crashed"
    /\ executed' = executed \cup {"tab1"}
    /\ UNCHANGED <<loaderVars, sidebarVars, filtered_data, monthly_trend,
                   hourly_pattern, markers, date_range, summary_stats, favVars,
                   gradeVars>>

(***************************************************************************)
(* Tab 2 (lines 183-209)                                                   *)
(***************************************************************************)
\* groupby([month, district])[pollutant].mean()
MonthlyTrend(rows, p) ==
    [k \in {<<rows[i].month, rows[i].district>> : i \in DOMAIN rows} |->
        Mean(Col(SelectRows(rows,
                 [i \in DOMAIN rows |->
                     rows[i].month = k[1] /\ rows[i].district = k[2]]), p))]

\* groupby([hour])[pollutant].mean()
HourlyPattern(rows, p) ==
    [h \in {rows[i].hour : i \in DOMAIN rows} |->
        Mean(Col(SelectRows(rows, [i \in DOMAIN rows |-> rows[i].hour = h]), p))]

Tab2 ==
    /\ pc = "tab2"
    /\ monthly_trend' = MonthlyTrend(filtered_data.rows, pollutant)
    /\ hourly_pattern' = HourlyPattern(filtered_data.rows, pollutant)
    /\ executed' = executed \cup {"tab2"}
    /\ pc' = "tab3"
    /\ UNCHANGED <<loaderVars, sidebarVars, filtered_data, latest_data, metrics,
                   district_avg, markers, date_range, summary_stats, raised,
                   favVars, gradeVars>>

(***************************************************************************)
(* Tab 3 (lines 211-272)                                                   *)
(***************************************************************************)
\* the keys of district_coords (lines 215-241) among the model's districts
district_coords == {"Gangnam", "Jung", "Jongno", "Mapo", "Seocho", "Songpa", "Yongsan"}

\* line 253
MarkerColor(grade) ==
    IF grade = "Good" THEN "blue"
    ELSE IF grade = "Moderate" THEN "green"
    ELSE IF grade = "Bad" THEN "orange"
    ELSE "red"

\* lines 247-270: one marker per selected district that has coordinates and rows
Markers(rows, ds, p) ==
    [d \in {d \in ds \cap district_coords :
               \E i \in DOMAIN rows : rows[i].district = d} |->
        LET avg_pollution ==
                Mean(Col(SelectRows(rows,
                         [i \in DOMAIN rows |-> rows[i].district = d]), p))
            grade == get_air_quality_grade(avg_pollution, p)
        IN  [avg |-> avg_pollution, grade |-> grade, color |-> MarkerColor(grade)]]

Tab3 ==
    /\ pc = "tab3"
    /\ markers' = Markers(filtered_data.rows, selected_districts, pollutant)
    /\ executed' = executed \cup {"tab3"}
    /\ pc' = "tab4"
    /\ UNCHANGED <<loaderVars, sidebarVars, filtered_data, latest_data, metrics,
                   district_avg, monthly_trend, hourly_pattern, date_range,
                   summary_stats, raised, favVars, gradeVars>>

(***************************************************************************)
(* Tab 4 (lines 274-307)                                                   *)
(***************************************************************************)
RECURSIVE MinTs(_)
\* filtered_data[ts].min(): NaT for no rows
MinTs(rows) ==
    IF rows = <<>> THEN NaT
    ELSE LET m == MinTs(Tail(rows))
         IN  IF isnat(m) \/ TsKey(Head(rows).ts) <= TsKey(m)
             THEN Head(rows).ts ELSE m

\* what st.date_input (lines 278-283) can return: the default (min, max), a
\* range of dates of the view between them, or, while the user has picked
\* only the start of a range, a 1-tuple.  For a view without rows the
\* bounds are the date of NaT, and the widget hands them back
DateRanges(rows) ==
    LET lo == DateOf(MinTs(rows))
        hi == DateOf(MaxTs(rows))
        dates == {DateOf(rows[i].ts) : i \in DOMAIN rows}
    IN  {<<lo, hi>>}
            \cup {r \in dates \X dates : r[1] <= r[2]}
            \cup {<<a>> : a \in dates}

\* lines 286-289: a comparison with the date of NaT is false
DateFiltered(rows, range) ==
    SelectRows(rows,
        [i \in DOMAIN rows |->
            /\ range[1] # DateOf(NaT) /\ DateOf(rows[i].ts) >= range[1]
            /\ range[2] # DateOf(NaT) /\ DateOf(rows[i].ts) <= range[2]])

\* line 293: groupby(district)[pollutant].agg([mean, max, min, std]).round(1);
\* std holds the variance, unrounded
SummaryStats(rows, p) ==
    [d \in DistrictsOf(rows) |->
        LET vals == Col(SelectRows(rows,
                        [i \in DOMAIN rows |-> rows[i].district = d]), p)
        IN  [mean |-> Round1(Mean(vals)), max |-> Round1(Max(vals)),
             min |-> Round1(Min(vals)), std |-> Std(vals)]]

Tab4 ==
    /\ pc = "tab4"
    /\ \E range \in DateRanges(filtered_data.rows) :
          /\ date_range' = range
          /\ IF Len(range) < 2
             THEN \* date_range[1] of a 1-tuple (line 288)
                  /\ raised' = "IndexError"
                  /\ pc' = "crashed"
                  /\ UNCHANGED summary_stats
             ELSE /\ summary_stats' =
                        SummaryStats(DateFiltered(filtered_data.rows, range),
                                     pollutant)
                  /\ pc' = "done"
                  /\ UNCHANGED raised
    /\ executed' = executed \cup {"tab4"}
    /\ UNCHANGED <<loaderVars, sidebarVars, filtered_data, latest_data, metrics,
                   district_avg, monthly_trend, hourly_pattern, markers,
                   favVars, gradeVars>>

(***************************************************************************)
(* Favourites (lines 116-135)                                              *)
(***************************************************************************)
InList(d, list) == \E i \in DOMAIN list : list[i] = d

\* the append without the membership test of line 124
AddPressedUnchecked(favs, d) == Append(favs, d)
\* lines 123-125: the add button pressed with d selected
AddPressed(favs, d) == IF ~InList(d, favs) THEN Append(favs, d) ELSE favs

RECURSIVE remove(_, _)
\* list.remove(d): the first occurrence of d taken out
remove(list, d) ==
    IF list = <<>> THEN <<>>
    ELSE IF Head(list) = d THEN Tail(list)
         ELSE <<Head(list)>> \o remove(Tail(list), d)

\* lines 133-134: the delete button of d pressed
DeletePressed(favs, d) == remove(favs, d)

\* a run in which the add button is pressed: the widgets of lines 105-114,
\* the append, and the script going on to the filter
AddFavorite ==
    /\ pc = "sidebar"
    /\ \E y \in Years(data), ds \in SUBSET DistrictsOf(data.rows),
          p \in Pollutants, fav_district \in DistrictsOf(data.rows) :
          /\ selected_year' = y
          /\ selected_districts' = ds
          /\ pollutant' = p
          /\ favorite_districts' = AddPressed(favorite_districts, fav_district)
          /\ lastFav' = <<[op |-> "add", district |-> fav_district,
                           before |-> favorite_districts]>>
    /\ pc' = "filter"
    /\ UNCHANGED <<loaderVars, tabVars, raised, executed, gradeVars>>

\* a run in which the delete button of a listed district is pressed: the
\* removal and st.rerun() (line 135), which abandons the run
DeleteFavorite ==
    /\ pc = "sidebar"
    /\ \E i \in DOMAIN favorite_districts :
          /\ favorite_districts' =
                 DeletePressed(favorite_districts, favorite_districts[i])
          /\ lastFav' = <<[op |-> "delete", district |-> favorite_districts[i],
                           before |-> favorite_districts]>>
    /\ pc' = "start"
    /\ data' = EmptyFrame
    /\ UNCHANGED <<files, cache, readCount, attempted, errors, filesAtLoad,
                   firstTable, lastLoad, emptyError, sidebarVars, tabVars,
                   raised, executed, gradeVars>>

(***************************************************************************)
(* Reruns and the environment                                              *)
(***************************************************************************)
\* a widget interaction: the script starts over; the cache and the session
\* state stay, the script's own variables are fresh
Rerun ==
    /\ pc # "start"
    /\ pc' = "start"
    /\ data' = EmptyFrame
    /\ emptyError' = FALSE
    /\ selected_year' = 0
    /\ selected_districts' = {}
    /\ pollutant' = "PM10"
    /\ filtered_data' = EmptyFrame
    /\ latest_data' = <<>>
    /\ metrics' = <<>>
    /\ district_avg' = <<>>
    /\ monthly_trend' = <<>>
    /\ hourly_pattern' = <<>>
    /\ markers' = <<>>
    /\ date_range' = <<>>
    /\ summary_stats' = <<>>
    /\ raised' = "none"
    /\ executed' = {}
    /\ UNCHANGED <<files, cache, readCount, attempted, errors, filesAtLoad,
                   firstTable, lastLoad, favVars, gradeVars>>

\* get_air_quality_grade applied to the two values of gradeIn
Classify ==
    /\ gradeOut = <<>>
    /\ gradeOut' = <<get_air_quality_grade(gradeIn.v, gradeIn.p),
                     get_air_quality_grade(gradeIn.w, gradeIn.p)>>
    /\ UNCHANGED <<loaderVars, pc, sidebarVars, tabVars, raised, executed,
                   favVars, gradeIn>>

(***************************************************************************)
(* Inputs                                                                  *)
(***************************************************************************)
MaxRows == 2
MaxFavDistricts == 4
MaxValue == 152
MaxDen == 1

RawRow(t, d, a, b) == [ts |-> t, district |-> d, PM10 |-> a, PM25 |-> b]

\* the last one has month 13 and does not parse
Stamps == {<<2021, 12, 31, 23>>, <<2022, 1, 1, 0>>, <<2022, 1, 2, 1>>,
           <<2022, 13, 1, 0>>}
BadStamp == <<2022, 13, 1, 0>>
ModelDistricts == {"Gangnam", "Jung"}
Readings == {[PM10 |-> NaN, PM25 |-> Num(20)],
             [PM10 |-> Num(40), PM25 |-> Num(10)]}
RawRows ==
    {RawRow(t, d, r.PM10, r.PM25) : t \in Stamps, d \in ModelDistricts,
                                     r \in Readings}
RawTables == UNION {[1..n -> RawRows] : n \in 0..MaxRows}

AllUnreadable == [s \in Sources |-> Unreadable]

\* the files of a deployment that has only the first CSV, or none
OneFile == {AllUnreadable}
               \cup {[AllUnreadable EXCEPT ![1] = Csv(t)] : t \in RawTables}

\* what each file can hold in the loader's specification: it is missing, it
\* has one good row, or it starts with a row whose date does not parse
LoadMenu(s) ==
    {Unreadable,
     Csv(<<RawRow(<<2022, 1, 2, 1>>, "Jung", Num(10 * s), NaN)>>),
     IF s % 2 = 1
     THEN Csv(<<RawRow(BadStamp, "Jung", Num(s), NaN),
                RawRow(<<2021, 12, 31, 23>>, "Gangnam", NaN, Num(s))>>)
     ELSE Csv(<<RawRow(BadStamp, "Gangnam", NaN, Num(s))>>)}
LoadFiles == {fs \in [Sources -> UNION {LoadMenu(s) : s \in Sources}] :
                 \A s \in Sources : fs[s] \in LoadMenu(s)}

\* one CSV with a row per district, for the favourites
FavDistricts == {DistrictNames[i] : i \in 1..MaxFavDistricts}
FavFiles ==
    [AllUnreadable EXCEPT ![1] =
        Csv([i \in 1..MaxFavDistricts |->
                RawRow(<<2022, 1, 1, 0>>, DistrictNames[i], Num(40), Num(10))])]

GradeValues ==
    {NaN} \cup {[num |-> n, den |-> d] : n \in 0..MaxValue, d \in 1..MaxDen}

\* a file of the loader's specification is replaced, removed or restored
FileChange ==
    /\ \E s \in Sources : \E f \in LoadMenu(s) :
          /\ f # files[s]
          /\ files' = [files EXCEPT ![s] = f]
    /\ UNCHANGED <<cache, readCount, attempted, errors, filesAtLoad, firstTable,
                   lastLoad, data, emptyError, pc, sidebarVars, tabVars, raised,
                   executed, favVars, gradeVars>>

(***************************************************************************)
(* Specifications                                                          *)
(***************************************************************************)
InitRun(fs) ==
    /\ files = fs
    /\ cache = <<>>
    /\ readCount = [s \in Sources |-> 0]
    /\ attempted = <<>>
    /\ errors = <<>>
    /\ filesAtLoad = fs
    /\ firstTable = <<>>
    /\ lastLoad = "none"
    /\ data = EmptyFrame
    /\ emptyError = FALSE
    /\ pc = "start"
    /\ selected_year = 0
    /\ selected_districts = {}
    /\ pollutant = "PM10"
    /\ filtered_data = EmptyFrame
    /\ latest_data = <<>>
    /\ metrics = <<>>
    /\ district_avg = <<>>
    /\ monthly_trend = <<>>
    /\ hourly_pattern = <<>>
    /\ markers = <<>>
    /\ date_range = <<>>
    /\ summary_stats = <<>>
    /\ raised = "none"
    /\ executed = {}
    /\ favorite_districts = <<>>
    /\ lastFav = <<>>

\* the dashboard: one script run after another over the files of OneFile
Init ==
    /\ \E fs \in OneFile : InitRun(fs)
    /\ gradeIn = <<>>
    /\ gradeOut = <<>>
Next ==
    \/ LoadData
    \/ Gate
    \/ Sidebar
    \/ Filter
    \/ Tab1
    \/ Tab2
    \/ Tab3
    \/ Tab4
    \/ Rerun
Spec == Init /\ [][Next]_vars

\* the loader: any of the five files missing or malformed, and changing on
\* disk while the process runs
InitLoad ==
    /\ \E fs \in LoadFiles : InitRun(fs)
    /\ gradeIn = <<>>
    /\ gradeOut = <<>>
NextLoad ==
    \/ LoadData
    \/ Gate
    \/ Rerun
    \/ FileChange
SpecLoad == InitLoad /\ [][NextLoad]_vars

\* the favourites buttons over a session
InitFav ==
    /\ InitRun(FavFiles)
    /\ gradeIn = <<>>
    /\ gradeOut = <<>>
NextFav ==
    \/ LoadData
    \/ Gate
    \/ AddFavorite
    \/ DeleteFavorite
    \/ Rerun
SpecFav == InitFav /\ [][NextFav]_vars

\* the grade of two values of one pollutant
InitGrade ==
    /\ InitRun(AllUnreadable)
    /\ \E v \in GradeValues, w \in GradeValues, p \in Pollutants :
          gradeIn = [v |-> v, w |-> w, p |-> p]
    /\ gradeOut = <<>>
NextGrade == Classify
SpecGrade == InitGrade /\ [][NextGrade]_vars

(***************************************************************************)
(* Properties                                                              *)
(***************************************************************************)
SeqSet(q) == {q[i] : i \in DOMAIN q}
Failed(fs) == {s \in Sources : ~fs[s].readable}
Parses(raw) == ~isnat(to_datetime(raw.ts))

\* the table has a row for the raw row: its district and readings under the
\* parsed timestamp
HasRowFor(raw, df) ==
    \E j \in DOMAIN df.rows :
        /\ df.rows[j].district = raw.district
        /\ df.rows[j].PM10 = raw.PM10
        /\ df.rows[j].PM25 = raw.PM25
        /\ df.rows[j].ts = to_datetime(raw.ts)
        /\ ~isnat(df.rows[j].ts)

\* what every execution of load_data's body does with the failing sources
SourcesHandled ==
    /\ attempted = [i \in 1..NumSources |-> i]
    /\ Len(errors) = Cardinality(Failed(filesAtLoad))
    /\ SeqSet(errors) = Failed(filesAtLoad)

\* C1 as stated: whatever set F of sources fails to read, every source is
\* attempted, exactly the |F| failing sources are reported, and every row of
\* every readable source is in the unified table.
C1_AllRowsIncluded ==
    cache # <<>> =>
        /\ SourcesHandled
        /\ \A s \in Sources \ Failed(filesAtLoad) :
              \A i \in DOMAIN filesAtLoad[s].rows :
                  HasRowFor(filesAtLoad[s].rows[i], cache[1])

\* C1 amended: whatever set F of sources fails to read, every source is
\* attempted, exactly the |F| failing sources are reported, and every row of
\* every readable source whose timestamp parses is in the unified table.
C1_ParsedRowsIncluded ==
    cache # <<>> =>
        /\ SourcesHandled
        /\ \A s \in Sources \ Failed(filesAtLoad) :
              \A i \in DOMAIN filesAtLoad[s].rows :
                  Parses(filesAtLoad[s].rows[i]) =>
                      HasRowFor(filesAtLoad[s].rows[i], cache[1])

\* C1 witness: sources 2 and 4 failed, the other three were read, two errors
\* were reported and the table holds rows of sources 1, 3 and 5.
C1_Witness ==
    /\ cache # <<>>
    /\ Failed(filesAtLoad) = {2, 4}
    /\ Len(errors) = 2
    /\ \A s \in {1, 3, 5} :
          \E j \in DOMAIN cache[1].rows :
              cache[1].rows[j].PM10 = Num(10 * s)

\* C2: over any sequence of reruns no source is read more than once, and
\* every load_data call returns the table the first call built.
C2_LoadedOnce ==
    /\ \A s \in Sources : readCount[s] <= 1
    /\ cache # <<>> => cache = firstTable
    /\ pc # "start" => firstTable # <<>> /\ data = firstTable[1]

\* C2 witness: a later call served from the cache although the files on disk
\* have changed and would now load to a different table.
C2_Witness ==
    /\ pc = "gate"
    /\ lastLoad = "hit"
    /\ files # filesAtLoad
    /\ Unify(ReadLoop(files).dfs) # data

\* C3: when the load retained no row, the run shows the empty-data error and
\* stops, and no filter or aggregation step has been executed in it.
C3_EmptyStops ==
    /\ (pc \notin {"start", "gate"} /\ Len(data.rows) = 0) =>
           /\ pc = "stopped"
           /\ emptyError
           /\ executed = {}
    /\ executed # {} => Len(data.rows) > 0

\* C3 witness: the file was read, both of its rows were dropped for their
\* timestamps, and the run stopped with the error.
C3_Witness ==
    /\ pc = "stopped"
    /\ emptyError
    /\ files[1].readable
    /\ Len(files[1].rows) = 2
    /\ data.columns # {}

AllMissing(rows, p) ==
    rows # <<>> /\ \A i \in DOMAIN rows : isna(Col(rows, p)[i])

\* C4 as stated: on an empty filtered view, and on a view whose selected
\* pollutant column is entirely missing, no aggregation step of the run
\* raises an error.
C4_AggregationsTotal ==
    ( /\ "filter" \in executed
      /\ pc # "tab1"
      /\ filtered_data.rows = <<>> \/ AllMissing(filtered_data.rows, pollutant) )
        => raised = "none"

\* C5: the filtered view holds exactly the rows of the table with the
\* selected year and a selected district, each as often as the table does,
\* and none at all for an empty district selection.
C5_FilterExact ==
    "filter" \in executed =>
        LET F == filtered_data.rows
            D == data.rows
            M == {i \in DOMAIN D : D[i].year = selected_year
                                     /\ D[i].district \in selected_districts}
        IN  /\ \A j \in DOMAIN F : F[j].year = selected_year
                                     /\ F[j].district \in selected_districts
            /\ Len(F) = Cardinality(M)
            /\ \A i \in M :
                  Cardinality({j \in DOMAIN F : F[j] = D[i]})
                      = Cardinality({k \in M : D[k] = D[i]})
            /\ selected_districts = {} => F = <<>>

\* C5 witness: a two-row table of which the filter kept one row and left out
\* a row of the selected year in a district that is not selected.
C5_Witness ==
    /\ "filter" \in executed
    /\ Len(data.rows) = 2
    /\ Len(filtered_data.rows) = 1
    /\ \E i \in DOMAIN data.rows :
          /\ data.rows[i].year = selected_year
          /\ data.rows[i].district \notin selected_districts

Severity(g) ==
    IF g = "Good" THEN 1
    ELSE IF g = "Moderate" THEN 2
    ELSE IF g = "Bad" THEN 3
    ELSE IF g = "VeryBad" THEN 4
    ELSE 0
Thresholds(p) == IF p = "PM10" THEN <<30, 80, 150>> ELSE <<15, 35, 75>>
\* the tier of a present value: one more than the thresholds it exceeds
Tier(v, p) ==
    1 + Cardinality({k \in 1..3 : ~LE(v, Num(Thresholds(p)[k]))})

\* C6: the grade is the no-data grade exactly for a missing value, a present
\* value gets the tier of the inclusive thresholds 30/80/150 (PM10) and
\* 15/35/75 (PM2.5), and a larger value never gets a less severe grade.
C6_GradeMonotonic ==
    gradeOut # <<>> =>
        /\ (gradeOut[1] = "NoData") <=> isna(gradeIn.v)
        /\ (gradeOut[2] = "NoData") <=> isna(gradeIn.w)
        /\ ~isna(gradeIn.v) => Severity(gradeOut[1]) = Tier(gradeIn.v, gradeIn.p)
        /\ ~isna(gradeIn.w) => Severity(gradeOut[2]) = Tier(gradeIn.w, gradeIn.p)
        /\ (~isna(gradeIn.v) /\ ~isna(gradeIn.w) /\ LE(gradeIn.v, gradeIn.w))
               => Severity(gradeOut[1]) <= Severity(gradeOut[2])

\* C6 witness: PM10 values 30 and 31 graded Good and Moderate.
C6_Witness ==
    /\ gradeIn # <<>>
    /\ gradeOut = <<"Good", "Moderate">>
    /\ gradeIn.p = "PM10"
    /\ gradeIn.v = Num(30)
    /\ gradeIn.w = Num(31)

\* the timestamps that the rows of the readable sources spell
ParsedStamps(fs) ==
    UNION {{to_datetime(fs[s].rows[i].ts) : i \in DOMAIN fs[s].rows} :
              s \in Sources \ Failed(fs)}

\* C7: every row of the unified table has a valid timestamp, one that a row
\* of a source spells (none is made up for a row that does not parse), and
\* its year, month, day and hour are those of the timestamp.
C7_TimestampsValid ==
    cache # <<>> =>
        \A j \in DOMAIN cache[1].rows :
            LET r == cache[1].rows[j]
            IN  /\ ~isnat(r.ts)
                /\ r.ts.month \in 1..12
                /\ r.ts.day \in 1..31
                /\ r.ts.hour \in 0..23
                /\ r.ts \in ParsedStamps(filesAtLoad)
                /\ r.year = r.ts.year
                /\ r.month = r.ts.month
                /\ r.day = r.ts.day
                /\ r.hour = r.ts.hour

\* C7 witness: a readable source held a row whose timestamp does not parse
\* and the table has rows, among them one with month 12 and day 31.
C7_Witness ==
    /\ cache # <<>>
    /\ \E s \in Sources \ Failed(filesAtLoad) :
          \E i \in DOMAIN filesAtLoad[s].rows :
              ~Parses(filesAtLoad[s].rows[i])
    /\ \E j \in DOMAIN cache[1].rows :
          cache[1].rows[j].month = 12 /\ cache[1].rows[j].day = 31

\* C8: whatever filter and tab steps have run, in this run and in the runs
\* before it, the cached table and the run's `data` are the table as built.
C8_TableUnchanged ==
    /\ cache # <<>> => cache = firstTable
    /\ pc \notin {"start"} => firstTable # <<>> /\ data = firstTable[1]
    /\ "filter" \in executed => filtered_data.columns = data.columns

\* C8 witness: a second run, served from the cache, has gone through the
\* filter and every tab with a view smaller than the table.
C8_Witness ==
    /\ pc = "done"
    /\ lastLoad = "hit"
    /\ filtered_data.rows # <<>>
    /\ Len(filtered_data.rows) < Len(data.rows)
    /\ executed = {"filter", "tab1", "tab2", "tab3", "tab4"}

RECURSIVE SumAt(_, _)
\* the sum of the whole-number readings at the indices idx
SumAt(vals, idx) ==
    IF idx = {} THEN 0
    ELSE LET i == CHOOSE i \in idx : TRUE
         IN  vals[i].num + SumAt(vals, idx \ {i})

\* C9: district_avg has one entry for each district of the view and for no
\* other; the entry is missing when the district has no present value, and
\* otherwise is the sum of its present values over their number.
C9_DistrictMean ==
    ("tab1" \in executed /\ ~(pc = "crashed" /\ "tab4" \notin executed)) =>
        LET rows == filtered_data.rows
            vals == Col(rows, pollutant)
        IN  /\ {district_avg[k].district : k \in DOMAIN district_avg}
                   = DistrictsOf(rows)
            /\ Len(district_avg) = Cardinality(DistrictsOf(rows))
            /\ \A k \in DOMAIN district_avg :
                  LET present == {i \in DOMAIN rows :
                                     /\ rows[i].district = district_avg[k].district
                                     /\ ~isna(vals[i])}
                      m == district_avg[k].mean
                  IN  IF present = {} THEN isna(m)
                      ELSE /\ ~isna(m)
                           /\ m.num * Cardinality(present)
                                  = SumAt(vals, present) * m.den

\* C9 witness: a district with a present and a missing PM10 reading, whose
\* mean is the present reading, 40.
C9_Witness ==
    /\ "tab1" \in executed /\ pc = "tab2"
    /\ pollutant = "PM10"
    /\ Len(filtered_data.rows) = 2
    /\ Len(district_avg) = 1
    /\ isna(filtered_data.rows[1].PM10)
    /\ EQ(district_avg[1].mean, Num(40))

NoDuplicates(list) ==
    \A i, j \in DOMAIN list : list[i] = list[j] => i = j

\* C10: the favourites list never holds a district twice; the add button
\* leaves the list as it was for a listed district and appends a new one at
\* the end; the delete button leaves the list without the district.
C10_FavoritesDistinct ==
    /\ NoDuplicates(favorite_districts)
    /\ lastFav # <<>> =>
           LET d == lastFav[1].district
               before == lastFav[1].before
           IN  /\ (lastFav[1].op = "add" /\ InList(d, before))
                      => favorite_districts = before
               /\ (lastFav[1].op = "add" /\ ~InList(d, before))
                      => favorite_districts = Append(before, d)
               /\ lastFav[1].op = "delete"
                      => /\ ~InList(d, favorite_districts)
                         /\ favorite_districts
                                = SelectSeq(before, LAMBDA x : x # d)

\* C10 witness: the add button pressed for a district already in a list of
\* two.
C10_Witness ==
    /\ lastFav # <<>>
    /\ lastFav[1].op = "add"
    /\ Len(lastFav[1].before) = 2
    /\ InList(lastFav[1].district, lastFav[1].before)

====
